---- MODULE Spec2Model ----
(***************************************************************************)
(* Model of dput/uploader.py: the upload driver invoke_dput, the marker    *)
(* computation determine_logfile, the context-managed uploader() and the   *)
(* hook runner AbstractUploader._run_hook.                                 *)
(*                                                                         *)
(* Strings are sequences of one-character strings, so that endswith,       *)
(* slicing and basename are computed as the code computes them.            *)
(* The external collaborators (checkers, the backend's initialize /        *)
(* upload_file, the hook's subprocess) succeed or fail nondeterministically.*)
(* make_delayed_upload and force_passive_ftp_upload only rewrite           *)
(* transport-specific profile keys, which no step of the driver reads.     *)
(* The marker file is the one file the driver opens; its content is the    *)
(* content visible once the `with open(...)` block has closed the handle.  *)
(* A marker written by the driver is readable by the same operator, so     *)
(* os.access(logfile, R_OK) is true exactly when the marker exists.        *)
(***************************************************************************)
EXTENDS Integers, Sequences, FiniteSets, TLC

(* ---------------------------- bounds ---------------------------------- *)
MaxFiles == 2
MaxAttempts == 3
MaxPrompts == 2

(* ---------------------------- strings --------------------------------- *)
xtn == <<".", "c", "h", "a", "n", "g", "e", "s">>

(* variant: the suffix of the descriptor is not checked *)
endswith_unchecked(s, suf) == TRUE

endswith(s, suf) ==
    /\ Len(s) >= Len(suf)
    /\ SubSeq(s, Len(s) - Len(suf) + 1, Len(s)) = suf

basename(p) ==
    LET slashes == {j \in 1..Len(p) : p[j] = "/"}
        last == IF slashes = {} THEN 0
                ELSE CHOOSE j \in slashes : \A m \in slashes : m <= j
    IN  SubSeq(p, last + 1, Len(p))

(* variant: the '.changes' suffix is not cut off *)
logfile_name_keeps_suffix(changes_file, name) ==
    changes_file \o <<".">> \o name \o <<".", "u", "p", "l", "o", "a", "d">>

(* "%s.%s.upload" % (logfile[:-len(xtn)], conf['name']) *)
logfile_name(changes_file, name) ==
    SubSeq(changes_file, 1, Len(changes_file) - Len(xtn))
        \o <<".">> \o name \o <<".", "u", "p", "l", "o", "a", "d">>

(* "Successfully uploaded %s to %s for %s.\n" *)
log_line(path, host, name) ==
    <<"Successfully uploaded ", basename(path), " to ", host, " for ", name, ".\n">>

(* ------------------------- inputs of a run ---------------------------- *)
DestName == <<"h">>
Fqdns == {<< >>, <<"f", ".", "o">>}

ChangesFiles ==
    { <<"d", "/", "p", ".", "c", "h", "a", "n", "g", "e", "s">>,
      <<"p", ".", "t", "a", "r", ".", "g", "z">> }

FilePool == << <<"d", "/", "x">>, <<"y">>, <<"d", "/", "z">> >>

FileLists == { SubSeq(FilePool, 1, n) : n \in 0..MaxFiles }

Registered == {"local"}
Methods == {"local", "nosuch"}
Interfaces == {"cli", "nosuch"}
InterfacesRegistered == {"cli"}

CheckerLists == { << >>, <<1, 2>>, <<2, 1>> }

HookCmd == <<"c">>
HookValues == {<< >>, HookCmd}

Profiles ==
    [ name : {DestName},
      method : Methods,
      interface : Interfaces,
      has_fqdn : BOOLEAN,
      fqdn : Fqdns,
      has_checkers : BOOLEAN,
      checkers : CheckerLists,
      has_pre : BOOLEAN,
      pre_upload_command : HookValues,
      has_post : BOOLEAN,
      post_upload_command : HookValues ]

(* a key that is absent carries no value: keep one representative *)
WellFormed(p) ==
    /\ (~p.has_fqdn => p.fqdn = << >>)
    /\ (~p.has_checkers => p.checkers = << >>)
    /\ (~p.has_pre => p.pre_upload_command = << >>)
    /\ (~p.has_post => p.post_upload_command = << >>)

(* ---------------------------- state ----------------------------------- *)
VARIABLES
    profile,        \* dput.profile.load_profile(args.host)
    changes,        \* [changes_file, files]: the artifact set
    args,           \* [force, simulate]
    marker,         \* [exists, lines]: the marker file on disk
    markerAtStart,  \* the marker when the current invocation began
    logfile,        \* the path determine_logfile returned
    pc,             \* position of invoke_dput
    k,              \* index of the next checker
    i,              \* index of the next path of the transfer loop; 0 before it
    tstate,         \* "none", "Uninitialized", "Ready", "ShutDown"
    pending,        \* exception in flight while the finally block runs
    result,         \* how invoke_dput returned
    trace,          \* calls made by this invocation, in order
    attempts,       \* number of invocations begun
    hist,           \* [plain, sent]: what the earlier invocations were and did
    prev,           \* the finished invocation a replay is compared with
    ui              \* [pc, calls, prompts]: the uploader's interactive interface

vars == <<profile, changes, args, marker, markerAtStart, logfile, pc, k, i,
          tstate, pending, result, trace, attempts, hist, prev, ui>>

Ev(op, arg, ok) == [op |-> op, arg |-> arg, ok |-> ok]

NoMarker == [exists |-> FALSE, lines |-> << >>]

(* changes.get_files() + [changes.get_changes_file(), ] *)
Paths == changes.files \o <<changes.changes_file>>

(* every path of the transfer sequence was handed to upload_file and sent *)
SentAll ==
    \A n \in 1..Len(Paths) :
        \E j \in 1..Len(trace) : trace[j] = Ev("upload_file", n, TRUE)

NoRun ==
    [ran |-> FALSE, args |-> [force |-> FALSE, simulate |-> FALSE],
     markerAtStart |-> NoMarker, marker |-> NoMarker, trace |-> << >>,
     result |-> "none"]

(* self._interface = interface_obj(): a fresh interface, nothing called yet *)
UiInit == [pc |-> "idle", calls |-> << >>, prompts |-> 0]

Init ==
    /\ profile \in {p \in Profiles : WellFormed(p)}
    /\ changes \in [changes_file : ChangesFiles, files : FileLists]
    /\ args = [force |-> FALSE, simulate |-> FALSE]
    /\ marker = NoMarker
    /\ markerAtStart = NoMarker
    /\ logfile = << >>
    /\ pc = "idle"
    /\ k = 0
    /\ i = 0
    /\ tstate = "none"
    /\ pending = "none"
    /\ result = "none"
    /\ trace = << >>
    /\ attempts = 0
    /\ hist = [plain |-> TRUE, sent |-> FALSE]
    /\ prev = NoRun
    /\ ui = UiInit

(* ------------------------- invoke_dput -------------------------------- *)
(* entry of invoke_dput: a fresh invocation with its own args *)
Invoke ==
    /\ pc \in {"idle", "done"}
    /\ attempts < MaxAttempts
    /\ \E f \in BOOLEAN, s \in BOOLEAN :
          /\ args' = [force |-> f, simulate |-> s]
          /\ hist' = [plain |-> hist.plain /\ ~f /\ ~s,
                      sent |-> hist.sent \/ SentAll]
    /\ attempts' = attempts + 1
    /\ markerAtStart' = marker
    /\ logfile' = << >>
    /\ pc' = "determine_logfile"
    /\ k' = 0
    /\ i' = 0
    /\ tstate' = "none"
    /\ pending' = "none"
    /\ result' = "none"
    /\ trace' = << >>
    /\ UNCHANGED <<profile, changes, marker>>
    /\ UNCHANGED <<prev, ui>>

os_access(m) == m.exists

(* variant: the test of args.force inverted *)
AlreadyUploaded_force_inverted(m, force) == os_access(m) /\ force

AlreadyUploaded(m, force) == os_access(m) /\ ~force

DetermineLogfile ==
    /\ pc = "determine_logfile"
    /\ IF ~endswith(changes.changes_file, xtn)
       THEN /\ result' = "UploadException:not_changes"
            /\ pc' = "done"
            /\ UNCHANGED <<logfile, trace, k>>
       ELSE /\ logfile' = logfile_name(changes.changes_file, profile.name)
            /\ trace' = Append(trace, Ev("os.access", 0, os_access(marker)))
            /\ IF AlreadyUploaded(marker, args.force)
               THEN /\ result' = "UploadException:already_uploaded"
                    /\ pc' = "done"
                    /\ k' = k
               ELSE /\ result' = result
                    /\ pc' = "checkers"
                    /\ k' = 1
    /\ UNCHANGED <<profile, changes, args, marker, markerAtStart, i, tstate,
                   pending, attempts>>
    /\ UNCHANGED <<hist, prev, ui>>

(* for checker in profile['checkers']: run_checker(checker, changes, profile) *)
checker_at(p, n) == p.checkers[n]

(* variant: a rejection is logged and the loop goes on to the next checker *)
checker_raises_swallowed(ok) == FALSE

(* a rejecting checker raises out of the for loop *)
checker_raises(ok) == ~ok

RunChecker ==
    /\ pc = "checkers"
    /\ profile.has_checkers
    /\ k <= Len(profile.checkers)
    /\ \E ok \in BOOLEAN :
          /\ trace' = Append(trace, Ev("run_checker", checker_at(profile, k), ok))
          /\ IF checker_raises(ok)
             THEN /\ result' = "CheckerRejection"
                  /\ pc' = "done"
                  /\ k' = k
             ELSE /\ result' = result
                  /\ pc' = pc
                  /\ k' = k + 1
    /\ UNCHANGED <<profile, changes, args, marker, markerAtStart, logfile, i,
                   tstate, pending, attempts>>
    /\ UNCHANGED <<hist, prev, ui>>

(* the for loop is exhausted, or 'checkers' is not in the profile *)
CheckersDone ==
    /\ pc = "checkers"
    /\ (~profile.has_checkers \/ k > Len(profile.checkers))
    /\ pc' = "open"
    /\ UNCHANGED <<profile, changes, args, marker, markerAtStart, logfile, k, i,
                   tstate, pending, result, trace, attempts>>
    /\ UNCHANGED <<hist, prev, ui>>

(* open(logfile, 'w'): creates the file, or truncates the existing one *)
open_w(m) == [exists |-> TRUE, lines |-> << >>]

OpenLog ==
    /\ pc = "open"
    /\ marker' = open_w(marker)
    /\ trace' = Append(trace, Ev("open", 0, TRUE))
    /\ pc' = "get_obj"
    /\ UNCHANGED <<profile, changes, args, markerAtStart, logfile, k, i, tstate,
                   pending, result, attempts>>
    /\ UNCHANGED <<hist, prev, ui>>

(* ---------------------------- uploader -------------------------------- *)
(* klass = get_obj('uploaders', uploader_method) *)
get_obj_uploaders(method) == method \in Registered

ResolveBackend ==
    /\ pc = "get_obj"
    /\ trace' = Append(trace, Ev("get_obj", 0, get_obj_uploaders(profile.method)))
    /\ IF ~get_obj_uploaders(profile.method)
       THEN /\ result' = "DputConfigurationError:method"
            /\ pc' = "done"
       ELSE /\ result' = result
            /\ pc' = "construct"
    /\ UNCHANGED <<profile, changes, args, marker, markerAtStart, logfile, k, i,
                   tstate, pending, attempts>>
    /\ UNCHANGED <<hist, prev, ui>>

(* obj = klass(profile): AbstractUploader.__init__ resolves the interface *)
get_obj_interfaces(interface) == interface \in InterfacesRegistered

Construct ==
    /\ pc = "construct"
    /\ trace' = Append(trace, Ev("klass", 0, get_obj_interfaces(profile.interface)))
    /\ IF ~get_obj_interfaces(profile.interface)
       THEN /\ result' = "DputConfigurationError:interface"
            /\ pc' = "done"
            /\ tstate' = tstate
       ELSE /\ result' = result
            /\ pc' = "initialize"
            /\ tstate' = "Uninitialized"
    /\ UNCHANGED <<profile, changes, args, marker, markerAtStart, logfile, k, i,
                   pending, attempts>>
    /\ ui' = UiInit
    /\ UNCHANGED <<hist, prev>>

(* variant: a failed initialize is swallowed and the upload carries on *)
initialize_raises_swallowed(ok) == FALSE

(* obj.initialize() is outside the try: its exception leaves uploader() *)
initialize_raises(ok) == ~ok

Initialize ==
    /\ pc = "initialize"
    /\ \E ok \in BOOLEAN :
          /\ trace' = Append(trace, Ev("initialize", 0, ok))
          /\ tstate' = IF ok THEN "Ready" ELSE tstate
          /\ IF initialize_raises(ok)
             THEN /\ result' = "InitializeError"
                  /\ pc' = "done"
             ELSE /\ result' = result
                  /\ pc' = "pre_hook"
    /\ UNCHANGED <<profile, changes, args, marker, markerAtStart, logfile, k, i,
                   pending, attempts>>
    /\ UNCHANGED <<hist, prev, ui>>

(* ------------------- AbstractUploader._run_hook ----------------------- *)
(* variant: the test for the empty command string is missing *)
hook_spawns_if_present(has, cmd) == has

(* if hook in self._config and self._config[hook] != "" *)
hook_spawns(has, cmd) == has /\ cmd # << >>

(* variant: the exit code of the hook is ignored *)
hook_raises_ignored(has, cmd, ret) == FALSE

(* if ret != 0: raise DputError *)
hook_raises(has, cmd, ret) == hook_spawns(has, cmd) /\ ret # 0

ExitCodes == {0, 1}

(* exit codes run_command can report for this hook; none is read when skipped *)
hook_rets(has, cmd) == IF hook_spawns(has, cmd) THEN ExitCodes ELSE {0}

hook_events(name, has, cmd, ret) ==
    <<Ev(name, 0, ~hook_raises(has, cmd, ret))>>
        \o (IF hook_spawns(has, cmd)
            THEN <<Ev("run_command", ret, ret = 0)>> ELSE << >>)

(* obj._pre_hook() is outside the try as well *)
PreHook ==
    /\ pc = "pre_hook"
    /\ \E ret \in hook_rets(profile.has_pre, profile.pre_upload_command) :
          /\ trace' = trace \o hook_events("_pre_hook", profile.has_pre,
                                          profile.pre_upload_command, ret)
          /\ IF hook_raises(profile.has_pre, profile.pre_upload_command, ret)
             THEN /\ result' = "DputError:pre_upload_command"
                  /\ pc' = "done"
                  /\ i' = i
             ELSE /\ result' = result
                  /\ pc' = "loop"
                  /\ i' = 1
    /\ UNCHANGED <<profile, changes, args, marker, markerAtStart, logfile, k,
                   tstate, pending, attempts>>
    /\ UNCHANGED <<hist, prev, ui>>

(* ----------------------- the transfer loop ---------------------------- *)
(* variant: the dry-run flag is not consulted *)
calls_upload_file_always(simulate) == TRUE

(* if not args.simulate: obj.upload_file(path) *)
calls_upload_file(simulate) == ~simulate

UploadFile ==
    /\ pc = "loop"
    /\ i <= Len(Paths)
    /\ IF calls_upload_file(args.simulate)
       THEN \E ok \in BOOLEAN :
              /\ trace' = Append(trace, Ev("upload_file", i, ok))
              /\ IF ok
                 THEN pc' = "write" /\ pending' = pending
                 ELSE pc' = "post_hook" /\ pending' = "UploadError"
       ELSE /\ trace' = trace
            /\ pc' = "write"
            /\ pending' = pending
    /\ UNCHANGED <<profile, changes, args, marker, markerAtStart, logfile, k, i,
                   tstate, result, attempts>>
    /\ UNCHANGED <<hist, prev, ui>>

(* profile['fqdn'] or profile['name']; profile['fqdn'] raises KeyError when absent *)
fqdn_or_name(p) == IF p.fqdn # << >> THEN p.fqdn ELSE p.name

LogWrite ==
    /\ pc = "write"
    /\ IF ~profile.has_fqdn
       THEN /\ pending' = "KeyError:fqdn"
            /\ pc' = "post_hook"
            /\ UNCHANGED <<marker, trace, i>>
       ELSE /\ marker' = [marker EXCEPT !.lines =
                  Append(@, log_line(Paths[i], fqdn_or_name(profile), profile.name))]
            /\ trace' = Append(trace, Ev("log.write", i, TRUE))
            /\ i' = i + 1
            /\ pc' = IF i = Len(Paths) THEN "post_hook" ELSE "loop"
            /\ pending' = pending
    /\ UNCHANGED <<profile, changes, args, markerAtStart, logfile, k, tstate,
                   result, attempts>>
    /\ UNCHANGED <<hist, prev, ui>>

(* -------------------- finally: _post_hook, shutdown ------------------- *)
(* an exception raised inside the finally block replaces the one in flight
   and skips the rest of the block *)
PostHook ==
    /\ pc = "post_hook"
    /\ \E ret \in hook_rets(profile.has_post, profile.post_upload_command) :
          /\ trace' = trace \o hook_events("_post_hook", profile.has_post,
                                          profile.post_upload_command, ret)
          /\ IF hook_raises(profile.has_post, profile.post_upload_command, ret)
             THEN /\ result' = "DputError:post_upload_command"
                  /\ pc' = "done"
             ELSE /\ result' = result
                  /\ pc' = "shutdown"
    /\ UNCHANGED <<profile, changes, args, marker, markerAtStart, logfile, k, i,
                   tstate, pending, attempts>>
    /\ UNCHANGED <<hist, prev, ui>>

Shutdown ==
    /\ pc = "shutdown"
    /\ trace' = Append(trace, Ev("shutdown", 0, TRUE))
    /\ tstate' = "ShutDown"
    /\ result' = IF pending = "none" THEN "ok" ELSE pending
    /\ pc' = "done"
    /\ UNCHANGED <<profile, changes, args, marker, markerAtStart, logfile, k, i,
                   pending, attempts>>
    /\ UNCHANGED <<hist, prev, ui>>

Next ==
    \/ Invoke
    \/ DetermineLogfile
    \/ RunChecker
    \/ CheckersDone
    \/ OpenLog
    \/ ResolveBackend
    \/ Construct
    \/ Initialize
    \/ PreHook
    \/ UploadFile
    \/ LogWrite
    \/ PostHook
    \/ Shutdown

Spec == Init /\ [][Next]_vars

TypeOK ==
    /\ pc \in {"idle", "determine_logfile", "checkers", "open", "get_obj",
               "construct", "initialize", "pre_hook", "loop", "write",
               "post_hook", "shutdown", "done"}
    /\ tstate \in {"none", "Uninitialized", "Ready", "ShutDown"}
    /\ attempts \in 0..MaxAttempts
    /\ i \in 0..(Len(Paths) + 1)

(* ======================= properties of the driver ===================== *)
TransportOps == {"initialize", "_pre_hook", "upload_file", "_post_hook", "shutdown"}

OpsOf(S) == SelectSeq(trace, LAMBDA e : e.op \in S)

Count(op) == Len(OpsOf({op}))

TransferFailed == \E j \in 1..Len(trace) : trace[j].op = "upload_file" /\ ~trace[j].ok

PostHookFailed == \E j \in 1..Len(trace) : trace[j].op = "_post_hook" /\ ~trace[j].ok

(* the lines a transfer loop writes for the first n paths *)
LinesFor(n) ==
    [j \in 1..n |-> log_line(Paths[j], fqdn_or_name(profile), profile.name)]

(* C1: an upload that reached the transfer loop has made the transport calls
   initialize, pre-hook, upload_file*, post-hook, shutdown, in this order,
   with post-hook and shutdown exactly once each. *)
C1_LifecycleOrder ==
    (pc = "done" /\ i > 0) =>
        LET t == OpsOf(TransportOps)
            n == Len(t)
        IN  /\ n >= 4
            /\ t[1].op = "initialize"
            /\ t[2].op = "_pre_hook"
            /\ \A j \in 3..(n - 2) : t[j].op = "upload_file"
            /\ t[n - 1].op = "_post_hook"
            /\ t[n].op = "shutdown"

(* C2: when the post-upload hook exits nonzero, a failure is reported to the
   caller and shutdown has still been invoked exactly once. *)
C2_PostHookFailureStillShutsDown ==
    (pc = "done" /\ PostHookFailed) =>
        /\ result \notin {"ok", "none"}
        /\ Count("shutdown") = 1

(* C3: checkers run strictly in the listed order; a rejection is the last
   thing the invocation does: no later checker, no backend resolution or
   construction, no initialize, and the upload fails with the rejection. *)
C3_CheckersFailFast ==
    LET cs == OpsOf({"run_checker"})
    IN  /\ Len(cs) <= Len(profile.checkers)
        /\ \A j \in 1..Len(cs) : cs[j].arg = profile.checkers[j]
        /\ \A j \in 1..Len(trace) :
              (trace[j].op = "run_checker" /\ ~trace[j].ok) =>
                  /\ j = Len(trace)
                  /\ pc = "done"
                  /\ result = "CheckerRejection"
                  /\ tstate = "none"
        /\ (Count("get_obj") > 0 /\ profile.has_checkers) =>
              Len(cs) = Len(profile.checkers)

C3_Witness ==
    /\ pc = "done"
    /\ result = "CheckerRejection"
    /\ profile.checkers = <<2, 1>>
    /\ Count("run_checker") = 1

(* C4: with the marker present and no --force, the invocation fails as
   already uploaded, the marker keeps its content, and nothing but the
   existence check has run: no checker, hook or transport operation. *)
C4_AlreadyUploadedAborts ==
    (pc # "idle" /\ markerAtStart.exists /\ ~args.force) =>
        /\ marker = markerAtStart
        /\ pc \in {"determine_logfile", "done"}
        /\ \A j \in 1..Len(trace) : trace[j].op = "os.access"
        /\ tstate = "none"
        /\ (pc = "done" => result = "UploadException:already_uploaded")

C4_Witness ==
    /\ pc = "done"
    /\ ~args.force
    /\ markerAtStart.exists
    /\ Len(markerAtStart.lines) > 0
    /\ result = "UploadException:already_uploaded"

(* C5: an invocation whose method resolves to no backend fails with the
   configuration error without file I/O or any other side effect: marker
   neither created nor modified, no hook, no transport operation. *)
C5_UnresolvedBackendNoSideEffect ==
    (pc = "done" /\ \E j \in 1..Len(trace) :
                        trace[j].op = "get_obj" /\ ~trace[j].ok) =>
        /\ result = "DputConfigurationError:method"
        /\ marker = markerAtStart
        /\ Len(OpsOf(TransportOps \cup {"run_command"})) = 0

(* C6: a completed dry run of N files makes no upload_file call and the
   marker gains N+1 lines: the files in list order, then the descriptor. *)
C6_DryRunGainsLines ==
    (pc = "done" /\ args.simulate /\ result = "ok") =>
        /\ Count("upload_file") = 0
        /\ marker.exists
        /\ marker.lines = markerAtStart.lines \o LinesFor(Len(Paths))

(* C7: when upload_file raises for the i-th path, no later upload_file is
   made, the marker holds the lines of exactly the i-1 paths before it, and
   post-hook then shutdown still run. *)
C7_TransferFailureTeardown ==
    pc = "done" =>
        \A j \in 1..Len(trace) :
            (trace[j].op = "upload_file" /\ ~trace[j].ok) =>
                /\ \A m \in (j + 1)..Len(trace) : trace[m].op # "upload_file"
                /\ marker.lines = LinesFor(trace[j].arg - 1)
                /\ LET t == OpsOf({"_post_hook", "shutdown"})
                   IN  /\ Len(t) = 2
                       /\ t[1].op = "_post_hook"
                       /\ t[2].op = "shutdown"

(* C8: when a transfer raised and the post-hook then also fails, the error
   surfaced by invoke_dput is the transfer error. *)
C8_FirstErrorWins ==
    (pc = "done" /\ TransferFailed /\ PostHookFailed) => result = "UploadError"

(* C9: every upload_file call is made on a transport that is Ready: its
   initialize has returned successfully and its shutdown has not been called. *)
C9_UploadOnlyWhileReady ==
    [][(/\ Len(trace') = Len(trace) + 1
        /\ trace'[Len(trace')].op = "upload_file")
       => (/\ tstate = "Ready"
           /\ \E j \in 1..Len(trace) : trace[j].op = "initialize" /\ trace[j].ok
           /\ Count("shutdown") = 0)]_vars

C9_Witness ==
    /\ pc = "done"
    /\ result = "ok"
    /\ Len(Paths) >= 2
    /\ Count("upload_file") = Len(Paths)

(* C10: the marker is created or changed only once the transfer loop has
   been entered, i.e. after resolution, construction, initialize and
   pre-hook succeeded. *)
C10_MarkerOnlyAfterReady ==
    (marker # markerAtStart) => (i > 0 /\ tstate \in {"Ready", "ShutDown"})

IsPrefix(a, b) == Len(a) <= Len(b) /\ SubSeq(b, 1, Len(a)) = a

(* C11: with or without the optional fqdn, an upload whose transfers all
   succeed writes one line per path in transfer order, naming the fqdn when
   it is set and the destination name otherwise; an absent fqdn does not
   fail the upload. *)
C11_MarkerLinesWithOrWithoutFqdn ==
    (pc = "done" /\ i > 0 /\ ~TransferFailed) =>
        /\ pending # "KeyError:fqdn"
        /\ marker.lines =
              [j \in 1..Len(Paths) |->
                  <<"Successfully uploaded ", basename(Paths[j]), " to ",
                    IF profile.has_fqdn /\ profile.fqdn # << >>
                    THEN profile.fqdn ELSE profile.name,
                    " for ", profile.name, ".\n">>]

(* C12: the marker is append-only: in every step its earlier content is a
   prefix of its later content, and an existing marker stays. *)
C12_MarkerAppendOnly ==
    [][/\ IsPrefix(marker.lines, marker'.lines)
       /\ (marker.exists => marker'.exists)]_vars

PreHookExitedNonzero ==
    \E j \in 1..(Len(trace) - 1) :
        /\ trace[j].op = "_pre_hook"
        /\ trace[j + 1].op = "run_command"
        /\ trace[j + 1].arg # 0

(* C14: when the pre-upload hook exits nonzero the upload aborts with the
   hook failure: no upload_file call is made and no marker line is written. *)
C14_PreHookFailureAborts ==
    PreHookExitedNonzero =>
        /\ pc = "done"
        /\ result = "DputError:pre_upload_command"
        /\ Count("upload_file") = 0
        /\ Count("log.write") = 0
        /\ marker.lines = << >>

C14_Witness ==
    /\ PreHookExitedNonzero
    /\ pc = "done"
    /\ ~args.simulate
    /\ Len(Paths) >= 2

NotChangesName(cf) ==
    ~ \E n \in 0..Len(cf) : cf = SubSeq(cf, 1, n) \o xtn

(* C16: a descriptor that does not end in '.changes' fails with the
   input-shape error before the filesystem is touched and before any
   checker, hook or transport operation, whatever the force flag. *)
C16_NotChangesFailsFirst ==
    (pc # "idle" /\ NotChangesName(changes.changes_file)) =>
        /\ trace = << >>
        /\ marker = markerAtStart
        /\ tstate = "none"
        /\ pc \in {"determine_logfile", "done"}
        /\ (pc = "done" => result = "UploadException:not_changes")

C16_Witness ==
    /\ pc = "done"
    /\ args.force
    /\ NotChangesName(changes.changes_file)
    /\ result = "UploadException:not_changes"

HookSkipped(has, cmd) == ~has \/ cmd = << >>

(* C17: a hook whose command is empty or not configured is skipped: no
   subprocess is spawned, it counts as success and the lifecycle goes on
   (the transfer loop after the pre-hook, shutdown after the post-hook). *)
C17_EmptyHookSkipped ==
    \A j \in 1..Len(trace) :
        /\ (/\ trace[j].op = "_pre_hook"
            /\ HookSkipped(profile.has_pre, profile.pre_upload_command)) =>
               /\ trace[j].ok
               /\ (j < Len(trace) => trace[j + 1].op # "run_command")
               /\ i >= 1
        /\ (/\ trace[j].op = "_post_hook"
            /\ HookSkipped(profile.has_post, profile.post_upload_command)) =>
               /\ trace[j].ok
               /\ (j < Len(trace) => trace[j + 1].op = "shutdown")
               /\ pc \in {"shutdown", "done"}
               /\ (pc = "done" => j < Len(trace))

C17_Witness ==
    /\ pc = "done"
    /\ result = "ok"
    /\ profile.has_pre
    /\ profile.pre_upload_command = << >>
    /\ ~profile.has_post
    /\ Count("run_command") = 0

(* C19: when invoke_dput has returned or raised, every transport whose
   initialize succeeded has been shut down exactly once; none is left Ready. *)
C19_NoTransportLeftReady ==
    pc = "done" =>
        /\ tstate # "Ready"
        /\ (\E j \in 1..Len(trace) : trace[j].op = "initialize" /\ trace[j].ok)
              => Count("shutdown") = 1

(* C20: across invocations made without --force and not in dry run, one is
   rejected as already uploaded only if an earlier one sent every file and
   the descriptor; a failed attempt leaves no marker that blocks the retry. *)
C20_OnlySuccessBlocksRetry ==
    (pc = "done" /\ hist.plain /\ result = "UploadException:already_uploaded")
        => hist.sent

(* ------------- determine_logfile on a wider set of inputs ------------- *)
FooChanges ==
    <<"f", "o", "o", "_", "1", ".", "0", "_", "a", "m", "d", "6", "4",
      ".", "c", "h", "a", "n", "g", "e", "s">>

MyHost == <<"m", "y", "h", "o", "s", "t">>

LogfileDescriptors ==
    ChangesFiles \cup
    { FooChanges,
      <<"f", "o", "o", "_", "1", ".", "0", ".", "t", "a", "r", ".", "g", "z">>,
      <<".", "c", "h", "a", "n", "g", "e", "s">>,
      <<"a", ".", "c", "h", "a", "n", "g", "e", "s",
        ".", "c", "h", "a", "n", "g", "e", "s">>,
      <<"a", ".", "c", "h", "a", "n", "g", "e", "s", ".", "g", "z">>,
      <<"c", "h", "a", "n", "g", "e", "s">> }

LogfileNames == {DestName, MyHost}

InitLogfile ==
    /\ profile \in {[p EXCEPT !.name = n] :
                       p \in {q \in Profiles : WellFormed(q) /\ ~q.has_checkers},
                       n \in LogfileNames}
    /\ changes \in [changes_file : LogfileDescriptors, files : FileLists]
    /\ args = [force |-> FALSE, simulate |-> FALSE]
    /\ marker \in {NoMarker, [exists |-> TRUE, lines |-> << >>]}
    /\ markerAtStart = NoMarker
    /\ logfile = << >>
    /\ pc = "idle"
    /\ k = 0
    /\ i = 0
    /\ tstate = "none"
    /\ pending = "none"
    /\ result = "none"
    /\ trace = << >>
    /\ attempts = 0
    /\ hist = [plain |-> TRUE, sent |-> FALSE]
    /\ prev = NoRun
    /\ ui = UiInit

NextLogfile == Invoke \/ DetermineLogfile

SpecLogfile == InitLogfile /\ [][NextLogfile]_vars

DotUpload == <<".", "u", "p", "l", "o", "a", "d">>

(* C15: the path determine_logfile returns is a function of the descriptor
   and the destination name alone: the descriptor with its final '.changes'
   replaced by '.<name>.upload'; 'foo_1.0_amd64.changes' and 'myhost' give
   'foo_1.0_amd64.myhost.upload'. *)
C15_LogfileFromDescriptorAndName ==
    pc = "checkers" =>
        /\ \E n \in 0..Len(changes.changes_file) :
              LET stem == SubSeq(changes.changes_file, 1, n)
              IN  /\ changes.changes_file = stem \o xtn
                  /\ logfile = stem \o <<".">> \o profile.name \o DotUpload
        /\ (changes.changes_file = FooChanges /\ profile.name = MyHost) =>
              logfile = <<"f", "o", "o", "_", "1", ".", "0", "_", "a", "m", "d",
                          "6", "4", ".", "m", "y", "h", "o", "s", "t",
                          ".", "u", "p", "l", "o", "a", "d">>

C15_Witness ==
    /\ pc = "checkers"
    /\ changes.changes_file = FooChanges
    /\ profile.name = MyHost
    /\ args.force
    /\ marker.exists

(* -------------------- AbstractUploader.prompt_ui ---------------------- *)
(* prompt_ui is called on a constructed uploader; the three calls it makes
   on self._interface are steps of their own, and query may raise. *)
PromptInitialize ==
    /\ pc = "initialize"
    /\ ui.pc \in {"idle", "returned", "raised"}
    /\ ui.prompts < MaxPrompts
    /\ ui' = [pc |-> "query", calls |-> Append(ui.calls, "initialize"),
              prompts |-> ui.prompts + 1]
    /\ UNCHANGED <<profile, changes, args, marker, markerAtStart, logfile, pc,
                   k, i, tstate, pending, result, trace, attempts, hist, prev>>

(* an exception of query leaves prompt_ui at once: no statement follows it *)
PromptQuery ==
    /\ ui.pc = "query"
    /\ \E ok \in BOOLEAN :
          ui' = [ui EXCEPT !.calls = Append(@, "query"),
                           !.pc = IF ok THEN "shutdown" ELSE "raised"]
    /\ UNCHANGED <<profile, changes, args, marker, markerAtStart, logfile, pc,
                   k, i, tstate, pending, result, trace, attempts, hist, prev>>

PromptShutdown ==
    /\ ui.pc = "shutdown"
    /\ ui' = [ui EXCEPT !.calls = Append(@, "shutdown"), !.pc = "returned"]
    /\ UNCHANGED <<profile, changes, args, marker, markerAtStart, logfile, pc,
                   k, i, tstate, pending, result, trace, attempts, hist, prev>>

NextPrompt ==
    \/ Invoke
    \/ DetermineLogfile
    \/ RunChecker
    \/ CheckersDone
    \/ OpenLog
    \/ ResolveBackend
    \/ Construct
    \/ PromptInitialize
    \/ PromptQuery
    \/ PromptShutdown

SpecPrompt == Init /\ [][NextPrompt]_vars

(* C18: every prompt_ui call that has returned or raised has made exactly
   the calls initialize, query, shutdown on the interface, in this order. *)
C18_PromptBracketed ==
    ui.pc \in {"returned", "raised"} =>
        /\ Len(ui.calls) = 3 * ui.prompts
        /\ \A m \in 0..(ui.prompts - 1) :
              SubSeq(ui.calls, 3 * m + 1, 3 * m + 3)
                  = <<"initialize", "query", "shutdown">>

(* ------------- a dry run and a real run from the same state ----------- *)
(* The first invocation is a dry run.  When it has finished it is recorded
   in prev, the marker is put back to what it was before, and the same
   arguments are run for real; its collaborators then answer as they did in
   the dry run and every upload_file succeeds. *)
PairMarkers ==
    IF ~endswith(changes.changes_file, xtn) THEN {NoMarker}
    ELSE {NoMarker,
          [exists |-> TRUE,
           lines |-> IF profile.has_fqdn THEN LinesFor(Len(Paths)) ELSE << >>]}

InitPair ==
    /\ profile \in {p \in Profiles : WellFormed(p)}
    /\ changes \in [changes_file : ChangesFiles, files : FileLists]
    /\ args = [force |-> FALSE, simulate |-> FALSE]
    /\ marker \in PairMarkers
    /\ markerAtStart = NoMarker
    /\ logfile = << >>
    /\ pc = "idle"
    /\ k = 0
    /\ i = 0
    /\ tstate = "none"
    /\ pending = "none"
    /\ result = "none"
    /\ trace = << >>
    /\ attempts = 0
    /\ hist = [plain |-> TRUE, sent |-> FALSE]
    /\ prev = NoRun
    /\ ui = UiInit

(* answers of the collaborators, in call order: checker verdicts, the
   outcome of initialize, the exit codes of the hooks *)
Answers(t) ==
    [checkers |-> [j \in 1..Len(SelectSeq(t, LAMBDA e : e.op = "run_checker"))
                      |-> SelectSeq(t, LAMBDA e : e.op = "run_checker")[j].ok],
     initialize |-> [j \in 1..Len(SelectSeq(t, LAMBDA e : e.op = "initialize"))
                      |-> SelectSeq(t, LAMBDA e : e.op = "initialize")[j].ok],
     hooks |-> [j \in 1..Len(SelectSeq(t, LAMBDA e : e.op = "run_command"))
                      |-> SelectSeq(t, LAMBDA e : e.op = "run_command")[j].arg]]

AgreeSoFar(a, b) ==
    \A j \in 1..(IF Len(a) < Len(b) THEN Len(a) ELSE Len(b)) : a[j] = b[j]

Replays ==
    prev.ran =>
        /\ ~TransferFailed
        /\ AgreeSoFar(Answers(trace).checkers, Answers(prev.trace).checkers)
        /\ AgreeSoFar(Answers(trace).initialize, Answers(prev.trace).initialize)
        /\ AgreeSoFar(Answers(trace).hooks, Answers(prev.trace).hooks)

PairDryRun == Invoke /\ attempts = 0 /\ args'.simulate

PairRealRun ==
    /\ pc = "done"
    /\ attempts = 1
    /\ prev' = [ran |-> TRUE, args |-> args, markerAtStart |-> markerAtStart,
                marker |-> marker, trace |-> trace, result |-> result]
    /\ marker' = markerAtStart
    /\ args' = [args EXCEPT !.simulate = FALSE]
    /\ attempts' = attempts + 1
    /\ logfile' = << >>
    /\ pc' = "determine_logfile"
    /\ k' = 0
    /\ i' = 0
    /\ tstate' = "none"
    /\ pending' = "none"
    /\ result' = "none"
    /\ trace' = << >>
    /\ UNCHANGED <<profile, changes, markerAtStart, hist, ui>>

PairDetermineLogfile == DetermineLogfile /\ Replays'
PairRunChecker == RunChecker /\ Replays'
PairCheckersDone == CheckersDone /\ Replays'
PairOpenLog == OpenLog /\ Replays'
PairResolveBackend == ResolveBackend /\ Replays'
PairConstruct == Construct /\ Replays'
PairInitialize == Initialize /\ Replays'
PairPreHook == PreHook /\ Replays'
PairUploadFile == UploadFile /\ Replays'
PairLogWrite == LogWrite /\ Replays'
PairPostHook == PostHook /\ Replays'
PairShutdown == Shutdown /\ Replays'

NextPair ==
    \/ PairDryRun
    \/ PairRealRun
    \/ PairDetermineLogfile
    \/ PairRunChecker
    \/ PairCheckersDone
    \/ PairOpenLog
    \/ PairResolveBackend
    \/ PairConstruct
    \/ PairInitialize
    \/ PairPreHook
    \/ PairUploadFile
    \/ PairLogWrite
    \/ PairPostHook
    \/ PairShutdown

SpecPair == InitPair /\ [][NextPair]_vars

WithoutUploads(t) == SelectSeq(t, LAMBDA e : e.op # "upload_file")

(* C13: from the same state and with the same answers of the collaborators,
   a dry run and a real run whose transfers all succeed make the same calls
   in the same order, upload_file apart, which only the real run makes, and
   leave the same marker. *)
C13_DryRunDiffersOnlyInUploads ==
    (pc = "done" /\ prev.ran) =>
        /\ WithoutUploads(trace) = WithoutUploads(prev.trace)
        /\ prev.trace = WithoutUploads(prev.trace)
        /\ marker = prev.marker
        /\ (result = "ok" => Count("upload_file") = Len(Paths))

C13_Witness ==
    /\ pc = "done"
    /\ prev.ran
    /\ prev.result = "ok"
    /\ result = "ok"
    /\ Len(Paths) >= 2
    /\ Count("upload_file") = Len(Paths)
    /\ Count("run_checker") = 2
    /\ Count("run_command") = 2
    /\ Len(marker.lines) = Len(Paths)
====
